---- MODULE Spec2Model ----
(***************************************************************************)
(* A model of webapp/www/orm.py: the schema derivation of ModelMetaclass,  *)
(* the instance operations of Model (attribute access, getValue,           *)
(* getValueOrDefault, find, save) and the pooled data-access functions     *)
(* select and execute.                                                     *)
(*                                                                         *)
(* Python values are modelled as strings: None is the string "None", the   *)
(* integer 0 is "0", and so on.  SQL text is modelled as the sequence of   *)
(* its lexical tokens (words, and one token per punctuation character or   *)
(* blank), so that two statements are the same text exactly when their     *)
(* token sequences are equal.                                              *)
(***************************************************************************)
EXTENDS Integers, Sequences, FiniteSets, TLC

VARIABLES
    decl,       \* the class statement last handed to ModelMetaclass.__new__
    cls,        \* the type it produced, or the error it raised
    inst,       \* the value mapping (dict) of the instance under observation
    gen,        \* how many times the default generator has been invoked so far
    last,       \* the operation last performed on the instance and its outcome
    firstVal,   \* per field: what the first resolving read returned (history)
    pc,         \* per data-access call: its position in select / execute
    conn,       \* per data-access call: whether it holds a pooled connection
    checkedOut  \* the pool's count of connections checked out

vars == <<decl, cls, inst, gen, last, firstVal, pc, conn, checkedOut>>

schemaVars == <<decl, cls>>
instVars == <<inst, gen, last, firstVal>>
poolVars == <<pc, conn, checkedOut>>

----------------------------------------------------------------------------
(* Bounds of the model *)

MaxFields == 3      \* attributes in one class body
MaxGen == 2         \* invocations of a default generator
MaxRows == 2        \* rows a statement matches / affects
MaxCalls == 3       \* data-access calls in flight together

----------------------------------------------------------------------------
(* Python values *)

None == "None"
Zero == "0"
EmptyStr == ""
NextId == "<function next_id>"
BoundMethod == "<bound method>"
NoRead == "<no read yet>"

Truthy(v) == v \notin {None, EmptyStr, Zero}

PyOr(a, b) == IF Truthy(a) THEN a ELSE b

Callable(v) == v = NextId

GenVals == <<"g1", "g2", "g3", "g4", "g5", "g6">>

Range(s) == {s[i] : i \in DOMAIN s}

----------------------------------------------------------------------------
(* SQL text as token sequences *)

\* the format of one back-quoted identifier
\* (the module's lexer admits no back-quote character in a string, so the token
\* is spelled out)
Backquote == "<backquote>"

Quote(f) == <<Backquote, f, Backquote>>

\* sep.join(parts), parts a sequence of token sequences
RECURSIVE Join(_, _)
Join(sep, parts) ==
    IF Len(parts) = 0 THEN <<>>
    ELSE IF Len(parts) = 1 THEN parts[1]
    ELSE parts[1] \o sep \o Join(sep, Tail(parts))

Comma == <<",">>

\* variant of create_args_string: the loop runs one time too few
create_args_string_short(num) == Join(Comma, [n \in 1..(num - 1) |-> <<"?">>])

\* create_args_string(num): num placeholders joined by commas
create_args_string(num) == Join(Comma, [n \in 1..num |-> <<"?">>])

\* sql.replace: the driver's placeholder for each question mark
ReplacePlaceholders(sql) == [i \in DOMAIN sql |-> IF sql[i] = "?" THEN "%s" ELSE sql[i]]

----------------------------------------------------------------------------
(* Field descriptors *)

\* Field.__init__(name, column_type, primary_key, default)
Field(name, column_type, primary_key, default) ==
    [class |-> "StringField", name |-> name, column_type |-> column_type,
     primary_key |-> primary_key, default |-> default]

\* StringField.__init__(name=None, primary_key=False, default=None, ddl='varchar(100)')
StringField(name, primary_key, default) ==
    Field(name, "varchar(100)", primary_key, default)

\* a class attribute that is no Field (a method, a constant)
PlainAttr ==
    [class |-> "function", name |-> None, column_type |-> None,
     primary_key |-> FALSE, default |-> None]

\* isinstance(v, Field)
IsField(v) == v.class = "StringField"

----------------------------------------------------------------------------
(* ModelMetaclass.__new__ *)

\* variant of ScanAttrs: a second primary key replaces the first, no error
RECURSIVE ScanAttrs_lastwins(_, _, _)
ScanAttrs_lastwins(attrs, i, st) ==
    IF i > Len(attrs) THEN st
    ELSE LET k == attrs[i].k
             v == attrs[i].v
         IN  IF ~IsField(v) THEN ScanAttrs_lastwins(attrs, i + 1, st)
             ELSE LET m == [x \in DOMAIN st.mappings \cup {k} |->
                               IF x = k THEN v ELSE st.mappings[x]]
                  IN  IF v.primary_key
                      THEN ScanAttrs_lastwins(attrs, i + 1,
                               [st EXCEPT !.mappings = m, !.primaryKey = k])
                      ELSE ScanAttrs_lastwins(attrs, i + 1,
                               [st EXCEPT !.mappings = m,
                                          !.fields = Append(st.fields, k)])

\* the loop over attrs.items(): collects mappings, the ordinary fields in
\* declaration order and the primary key; raises on a second primary key
RECURSIVE ScanAttrs(_, _, _)
ScanAttrs(attrs, i, st) ==
    IF i > Len(attrs) \/ st.error # None THEN st
    ELSE LET k == attrs[i].k
             v == attrs[i].v
         IN  IF ~IsField(v) THEN ScanAttrs(attrs, i + 1, st)
             ELSE LET m == [x \in DOMAIN st.mappings \cup {k} |->
                               IF x = k THEN v ELSE st.mappings[x]]
                  IN  IF v.primary_key
                      THEN IF Truthy(st.primaryKey)
                           THEN [st EXCEPT !.mappings = m,
                                           !.error = "RuntimeError: Duplicate primary key"]
                           ELSE ScanAttrs(attrs, i + 1,
                                    [st EXCEPT !.mappings = m, !.primaryKey = k])
                      ELSE ScanAttrs(attrs, i + 1,
                               [st EXCEPT !.mappings = m,
                                          !.fields = Append(st.fields, k)])

\* the four statement templates, built from the scan's result
SelectTemplate(tableName, primaryKey, fields) ==
    <<"select", " ">> \o Quote(primaryKey) \o <<",", " ">>
        \o Join(Comma, [i \in DOMAIN fields |-> Quote(fields[i])])
        \o <<" ", "from", " ">> \o Quote(tableName)

InsertTemplate(tableName, primaryKey, fields) ==
    <<"insert", " ", "into", " ">> \o Quote(tableName) \o <<" ", "(">>
        \o Join(Comma, [i \in DOMAIN fields |-> Quote(fields[i])])
        \o <<",", " ">> \o Quote(primaryKey) \o <<")", " ", "values", " ", "(">>
        \o create_args_string(Len(fields) + 1) \o <<")">>

\* one entry of the set clause: the identifier is (mappings.get(f).name or f)
SetEntry(mappings, f) == Quote(PyOr(mappings[f].name, f)) \o <<"=", "?">>

UpdateTemplate(tableName, primaryKey, fields, mappings) ==
    <<"update", " ">> \o Quote(tableName) \o <<" ", "set", " ">>
        \o Join(Comma, [i \in DOMAIN fields |-> SetEntry(mappings, fields[i])])
        \o <<" ", "where", " ">> \o Quote(primaryKey) \o <<"=", "?">>

DeleteTemplate(tableName, primaryKey) ==
    <<"delete", " ", "from", " ">> \o Quote(tableName)
        \o <<" ", "where", " ">> \o Quote(primaryKey) \o <<"=", "?">>

\* the type New returns for the class statement d, or the error it raises
New(d) ==
    IF d.name = "Model" THEN [kind |-> "plain", name |-> d.name]
    ELSE LET tableName == PyOr(d.table, d.name)
             st == ScanAttrs(d.attrs, 1,
                       [mappings |-> <<>>, fields |-> <<>>,
                        primaryKey |-> None, error |-> None])
         IN  IF st.error # None THEN [kind |-> "error", error |-> st.error]
             ELSE IF ~Truthy(st.primaryKey)
             THEN [kind |-> "error", error |-> "RuntimeError: Primary key not found"]
             ELSE [kind |-> "mapped", name |-> d.name,
                   mappings |-> st.mappings,
                   table |-> tableName,
                   primary_key |-> st.primaryKey,
                   fields |-> st.fields,
                   select |-> SelectTemplate(tableName, st.primaryKey, st.fields),
                   insert |-> InsertTemplate(tableName, st.primaryKey, st.fields),
                   update |-> UpdateTemplate(tableName, st.primaryKey, st.fields,
                                             st.mappings),
                   delete |-> DeleteTemplate(tableName, st.primaryKey)]

----------------------------------------------------------------------------
(* The class statements the schema specification declares *)

AttrNames == {"id", "name", "age", "items"}

\* the attribute values a class body may bind a name to
AttrValues ==
    {PlainAttr,
     StringField(None, FALSE, None),
     StringField(None, TRUE, None),
     StringField("col", FALSE, None),
     StringField("col", TRUE, None),
     StringField(None, FALSE, Zero)}

\* sequences of distinct names, at most n long (a class body binds a name once)
NameSeqs(n) ==
    {s \in UNION {[1..m -> AttrNames] : m \in 0..n} :
        \A i, j \in DOMAIN s : i # j => s[i] # s[j]}

ClassNames == {"Model", "User"}
TableNames == {None, "users"}

NoDecl == [name |-> None, table |-> None, attrs |-> <<>>]
NoClass == [kind |-> "none"]

----------------------------------------------------------------------------
(* Model: attribute access *)

\* the names ordinary attribute lookup finds on the class before __getattr__
\* is consulted: the methods Model inherits from dict and those it defines
ClassAttrs ==
    {"items", "keys", "values", "get", "pop", "update", "copy", "clear",
     "getValue", "getValueOrDefault", "find", "save"}

Ok(v) == [exc |-> None, ret |-> v]
Raise(e) == [exc |-> e, ret |-> None]

\* variant of Model_getattr: a missing key reads as None
Model_getattr_bug(d, key) ==
    IF key \in DOMAIN d THEN Ok(d[key]) ELSE Ok(None)

\* Model.__getattr__(self, key): self[key], a KeyError turned into AttributeError

Model_getattr(d, key) ==
    IF key \in DOMAIN d THEN Ok(d[key]) ELSE Raise("AttributeError")

\* the expression self.key / getattr(self, key)
GetAttribute(d, key) ==
    IF key \in ClassAttrs THEN Ok(BoundMethod) ELSE Model_getattr(d, key)

\* getattr(self, key, default)
GetAttributeOr(d, key, default) ==
    LET r == GetAttribute(d, key)
    IN  IF r.exc = "AttributeError" THEN default ELSE r.ret

\* Model.__setattr__(self, key, value): self[key] = value
Model_setattr(d, key, value) ==
    [x \in DOMAIN d \cup {key} |-> IF x = key THEN value ELSE d[x]]

\* Model.getValue(self, key)
getValue(d, key) == GetAttributeOr(d, key, None)

\* variant of getValueOrDefault: the resolved default is not stored
getValueOrDefault_nostore(c, d, g, key) ==
    LET value == GetAttributeOr(d, key, None)
    IN  IF value # None
        THEN [exc |-> None, ret |-> value, inst |-> d, gen |-> g, gencalls |-> 0]
        ELSE IF key \notin DOMAIN c.mappings
        THEN [exc |-> "KeyError", ret |-> None, inst |-> d, gen |-> g, gencalls |-> 0]
        ELSE LET field == c.mappings[key]
             IN  IF field.default # None
                 THEN IF Callable(field.default)
                      THEN [exc |-> None, ret |-> GenVals[g + 1], inst |-> d,
                            gen |-> g + 1, gencalls |-> 1]
                      ELSE [exc |-> None, ret |-> field.default, inst |-> d,
                            gen |-> g, gencalls |-> 0]
                 ELSE [exc |-> None, ret |-> value, inst |-> d, gen |-> g,
                       gencalls |-> 0]

\* Model.getValueOrDefault(self, key), on value mapping d with g generator
\* invocations so far: the value returned or the error raised, the mapping and
\* the generator count afterwards, and the generator invocations of this call
getValueOrDefault(c, d, g, key) ==
    LET value == GetAttributeOr(d, key, None)
    IN  IF value # None
        THEN [exc |-> None, ret |-> value, inst |-> d, gen |-> g, gencalls |-> 0]
        ELSE IF key \notin DOMAIN c.mappings
        THEN [exc |-> "KeyError", ret |-> None, inst |-> d, gen |-> g, gencalls |-> 0]
        ELSE LET field == c.mappings[key]
             IN  IF field.default # None
                 THEN IF Callable(field.default)
                      THEN [exc |-> None, ret |-> GenVals[g + 1],
                            inst |-> Model_setattr(d, key, GenVals[g + 1]),
                            gen |-> g + 1, gencalls |-> 1]
                      ELSE [exc |-> None, ret |-> field.default,
                            inst |-> Model_setattr(d, key, field.default),
                            gen |-> g, gencalls |-> 0]
                 ELSE [exc |-> None, ret |-> value, inst |-> d, gen |-> g,
                       gencalls |-> 0]

----------------------------------------------------------------------------
(* The data-access functions, as Model's methods see them *)

\* select(sql, args, size): the rows the cursor hands back when the statement
\* matches rows; size 0 stands for a size that is None or 0 (no limit)
select(sql, args, size, rows) ==
    IF size # 0 THEN SubSeq(rows, 1, IF size < Len(rows) THEN size ELSE Len(rows))
    ELSE rows

\* the record of one call of select
SelectCall(sql, args, size, raised, rows) ==
    [fn |-> "select", sql |-> sql, statement |-> ReplacePlaceholders(sql),
     args |-> args, size |-> size, raised |-> raised,
     rs |-> IF raised THEN <<>> ELSE select(sql, args, size, rows), rowcount |-> 0]

\* the record of one call of execute(sql, args): it raises or returns cur.rowcount
ExecuteCall(sql, args, raised, rowcount) ==
    [fn |-> "execute", sql |-> sql, statement |-> ReplacePlaceholders(sql),
     args |-> args, size |-> 0, raised |-> raised,
     rs |-> <<>>, rowcount |-> IF raised THEN 0 ELSE rowcount]

----------------------------------------------------------------------------
(* Model.find and Model.save *)

\* the statement find hands to select: the select template and the predicate
FindStatement(c) ==
    c.select \o <<" ", "where", " ">> \o Quote(c.primary_key) \o <<"=", "?">>

\* variant of find: rs[0] is taken without the test for an empty result
find_unchecked(c, pk, raised, rows) ==
    LET call == SelectCall(FindStatement(c), <<pk>>, 1, raised, rows)
    IN  IF raised
        THEN [exc |-> "DbError", ret |-> None, new |-> <<>>, calls |-> <<call>>]
        ELSE IF Len(call.rs) = 0
        THEN [exc |-> "IndexError", ret |-> None, new |-> <<>>, calls |-> <<call>>]
        ELSE [exc |-> None, ret |-> "<instance>", new |-> call.rs[1],
              calls |-> <<call>>]

\* Model.find(cls, pk), the database matching rows (or the call raising)
find(c, pk, raised, rows) ==
    LET call == SelectCall(FindStatement(c), <<pk>>, 1, raised, rows)
    IN  IF raised
        THEN [exc |-> "DbError", ret |-> None, new |-> <<>>, calls |-> <<call>>]
        ELSE IF Len(call.rs) = 0
        THEN [exc |-> None, ret |-> None, new |-> <<>>, calls |-> <<call>>]
        ELSE [exc |-> None, ret |-> "<instance>", new |-> call.rs[1],
              calls |-> <<call>>]

\* list(map(self.getValueOrDefault, keys)): the values in order, each call
\* working on the mapping the one before it left
RECURSIVE MapGetValueOrDefault(_, _, _, _)
MapGetValueOrDefault(c, d, g, keys) ==
    IF Len(keys) = 0 THEN [args |-> <<>>, inst |-> d, gen |-> g, gencalls |-> 0]
    ELSE LET r == getValueOrDefault(c, d, g, keys[1])
             rest == MapGetValueOrDefault(c, r.inst, r.gen, Tail(keys))
         IN  [args |-> <<r.ret>> \o rest.args, inst |-> rest.inst,
              gen |-> rest.gen, gencalls |-> r.gencalls + rest.gencalls]

\* variant of save: an affected-row count other than 1 is raised as an error
save_strict(c, d, g, raised, rowcount) ==
    LET m == MapGetValueOrDefault(c, d, g, Append(c.fields, c.primary_key))
        call == ExecuteCall(c.insert, m.args, raised, rowcount)
    IN  [exc |-> IF raised THEN "DbError"
                 ELSE IF rowcount # 1 THEN "InsertError" ELSE None,
         ret |-> None, inst |-> m.inst, gen |-> m.gen, gencalls |-> m.gencalls,
         calls |-> <<call>>, logs |-> <<>>]

\* Model.save(self), execute raising or reporting rowcount affected rows; the
\* keys it reads are all declared fields, so no read raises
save(c, d, g, raised, rowcount) ==
    LET m == MapGetValueOrDefault(c, d, g, Append(c.fields, c.primary_key))
        call == ExecuteCall(c.insert, m.args, raised, rowcount)
    IN  [exc |-> IF raised THEN "DbError" ELSE None,
         ret |-> None, inst |-> m.inst, gen |-> m.gen, gencalls |-> m.gencalls,
         calls |-> <<call>>,
         logs |-> IF ~raised /\ rowcount # 1
                  THEN <<"warn: failded to insert record">> ELSE <<>>]

----------------------------------------------------------------------------
(* Specification of schema derivation: one class statement is evaluated *)

NoOp == [op |-> "none", key |-> None, ret |-> None, exc |-> None,
         calls |-> <<>>, logs |-> <<>>, gencalls |-> 0]

InstIdle == inst = <<>> /\ gen = 0 /\ last = NoOp /\ firstVal = <<>>
PoolIdle == pc = <<>> /\ conn = <<>> /\ checkedOut = 0

SchemaInit == decl = NoDecl /\ cls = NoClass /\ InstIdle /\ PoolIdle

\* class <name>(Model): __table__ = <table>; <k1> = <v1>; ... evaluated:
\* the metaclass is handed the name and the attributes in declaration order
DeclareClass ==
    /\ cls = NoClass
    /\ \E name \in ClassNames, table \in TableNames, ks \in NameSeqs(MaxFields) :
         \E vs \in [DOMAIN ks -> AttrValues] :
            /\ decl' = [name |-> name, table |-> table,
                        attrs |-> [i \in DOMAIN ks |-> [k |-> ks[i], v |-> vs[i]]]]
            /\ cls' = New(decl')
    /\ UNCHANGED <<instVars, poolVars>>

SchemaNext == DeclareClass

SpecSchema == SchemaInit /\ [][SchemaNext]_vars

----------------------------------------------------------------------------
(* Specification of the instance operations: one instance of a mapped type *)

Attr(k, v) == [k |-> k, v |-> v]

\* class User(Model): id with a generated default, name without a default,
\* age with the constant default 0, items with the constant default 'd' 
UserDecl ==
    [name |-> "User", table |-> "users",
     attrs |-> <<Attr("id", StringField(None, TRUE, NextId)),
                 Attr("name", StringField(None, FALSE, None)),
                 Attr("age", StringField(None, FALSE, Zero)),
                 Attr("items", StringField(None, FALSE, "d"))>>]

\* class Token(Model): nothing but the primary key
TokenDecl ==
    [name |-> "Token", table |-> None,
     attrs |-> <<Attr("id", StringField(None, TRUE, NextId))>>]

InstDecls == {UserDecl, TokenDecl}

\* the names the operations are called with: the fields and an undeclared name
Keys == {"id", "name", "age", "items", "zzz"}

\* the values the caller stores
SetVals == {None, "a"}

IsUnset(d, key) == key \notin DOMAIN d \/ d[key] = None

HasDefault(c, key) == key \in DOMAIN c.mappings /\ c.mappings[key].default # None

\* history: what the first default-resolving read of each field returned
NoReads == [k \in Keys |-> NoRead]

NoteRead(fv, c, d, key, ret) ==
    IF fv[key] = NoRead /\ IsUnset(d, key) /\ HasDefault(c, key)
    THEN [fv EXCEPT ![key] = ret] ELSE fv

InstInit ==
    /\ decl \in InstDecls
    /\ cls = New(decl)
    /\ \E S \in SUBSET (Keys \ {"zzz"}) : inst \in [S -> SetVals]
    /\ gen = 0
    /\ last = [NoOp EXCEPT !.op = "init"]
    /\ firstVal = NoReads
    /\ PoolIdle

\* x = self.key
GetAttr(key) ==
    /\ LET r == GetAttribute(inst, key)
       IN  last' = [NoOp EXCEPT !.op = "getattr", !.key = key,
                                !.ret = r.ret, !.exc = r.exc]
    /\ UNCHANGED <<inst, gen, firstVal>>
    /\ UNCHANGED <<decl, cls, poolVars>>

\* self.key = value
SetAttr(key, value) ==
    /\ inst' = Model_setattr(inst, key, value)
    /\ last' = [NoOp EXCEPT !.op = "setattr", !.key = key]
    /\ firstVal' = [firstVal EXCEPT ![key] = NoRead]
    /\ UNCHANGED gen
    /\ UNCHANGED <<decl, cls, poolVars>>

GetValue(key) ==
    /\ last' = [NoOp EXCEPT !.op = "getValue", !.key = key,
                            !.ret = getValue(inst, key)]
    /\ UNCHANGED <<inst, gen, firstVal>>
    /\ UNCHANGED <<decl, cls, poolVars>>

GetValueOrDefault(key) ==
    LET r == getValueOrDefault(cls, inst, gen, key)
    IN  /\ r.gen <= MaxGen
        /\ inst' = r.inst
        /\ gen' = r.gen
        /\ last' = [NoOp EXCEPT !.op = "getValueOrDefault", !.key = key,
                                !.ret = r.ret, !.exc = r.exc,
                                !.gencalls = r.gencalls]
        /\ firstVal' = IF r.exc = None
                       THEN NoteRead(firstVal, cls, inst, key, r.ret)
                       ELSE firstVal
        /\ UNCHANGED <<decl, cls, poolVars>>

\* the rows of the table that a statement may match
DbRows == {[k \in Range(cls.fields) \cup {cls.primary_key} |-> v] : v \in SetVals}

DbResults == UNION {[1..n -> DbRows] : n \in 0..MaxRows}

\* obj = cls.find(pk): the instance under observation is from now on obj
Find(pk) ==
    \E raised \in BOOLEAN, rows \in DbResults :
        LET r == find(cls, pk, raised, rows)
        IN  /\ raised => rows = <<>>
            /\ last' = [NoOp EXCEPT !.op = "find", !.key = pk, !.ret = r.ret,
                                    !.exc = r.exc, !.calls = r.calls]
            /\ IF r.ret = "<instance>"
               THEN inst' = r.new /\ firstVal' = NoReads
               ELSE UNCHANGED <<inst, firstVal>>
            /\ UNCHANGED gen
            /\ UNCHANGED <<decl, cls, poolVars>>

\* self.save()
Save ==
    \E raised \in BOOLEAN, rowcount \in 0..MaxRows :
        LET r == save(cls, inst, gen, raised, rowcount)
            keys == Append(cls.fields, cls.primary_key)
        IN  /\ raised => rowcount = 0
            /\ r.gen <= MaxGen
            /\ inst' = r.inst
            /\ gen' = r.gen
            /\ last' = [NoOp EXCEPT !.op = "save", !.ret = r.ret, !.exc = r.exc,
                                    !.calls = r.calls, !.logs = r.logs,
                                    !.gencalls = r.gencalls]
            /\ firstVal' = [k \in Keys |->
                              IF \E i \in DOMAIN keys : keys[i] = k
                              THEN LET i == CHOOSE j \in DOMAIN keys : keys[j] = k
                                   IN  NoteRead(firstVal, cls, inst, k,
                                                r.calls[1].args[i])[k]
                              ELSE firstVal[k]]
            /\ UNCHANGED <<decl, cls, poolVars>>

InstNext ==
    \/ \E key \in Keys : GetAttr(key)
    \/ \E key \in Keys, value \in SetVals : SetAttr(key, value)
    \/ \E key \in Keys : GetValue(key)
    \/ \E key \in Keys : GetValueOrDefault(key)
    \/ Find("a")
    \/ Save

Spec == InstInit /\ [][InstNext]_vars

----------------------------------------------------------------------------
(* Specification of the pooled data-access calls: select and execute calls  *)
(* run as concurrent tasks over the one shared pool                         *)

Calls == 1..MaxCalls

\* the size the pool was created with (create_pool's maxsize)
maxsize == 2

\* async with __pool as conn: on entry a connection is checked out of the
\* pool, on exit it is handed back
Pool_aenter(n) == n + 1
Pool_aexit(n) == n - 1

Idle == [fn |-> "none", at |-> "idle"]

Finished(p) == p.at \in {"idle", "returned", "failed", "unconnected"}

\* the statement after the one at p.at, inside the async with block
NextStep(p) ==
    CASE p.at = "cursor" -> "run"
      [] p.at = "run" -> IF p.fn = "select" THEN "fetch" ELSE "close"
      [] p.at = "fetch" -> "close"
      [] p.at = "close" -> "exit"

\* variant of AfterRaise: the exception leaves the call past the block's exit
AfterRaise_leak(p) == [p EXCEPT !.at = "failed"]

\* where a call stands after a statement of the block raised: the exception
\* leaves the block through the exit of the async with (execute's
\* except clause re-raises it)

AfterRaise(p) == [p EXCEPT !.at = "raising"]

PoolInit ==
    /\ decl = NoDecl /\ cls = NoClass /\ InstIdle
    /\ pc = [t \in Calls |-> Idle]
    /\ conn = [t \in Calls |-> FALSE]
    /\ checkedOut = 0

\* a task calls select or execute: the statement is logged
BeginCall(t, fn) ==
    /\ Finished(pc[t])
    /\ pc' = [pc EXCEPT ![t] = [fn |-> fn, at |-> "enter"]]
    /\ UNCHANGED <<conn, checkedOut, schemaVars, instVars>>

\* entry of the async with block
Acquire(t) ==
    /\ pc[t].at = "enter"
    /\ checkedOut < maxsize
    /\ checkedOut' = Pool_aenter(checkedOut)
    /\ conn' = [conn EXCEPT ![t] = TRUE]
    /\ pc' = [pc EXCEPT ![t].at = "cursor"]
    /\ UNCHANGED <<schemaVars, instVars>>

\* the entry itself fails (no connection can be made): nothing is held
AcquireFails(t) ==
    /\ pc[t].at = "enter"
    /\ pc' = [pc EXCEPT ![t].at = "unconnected"]
    /\ UNCHANGED <<conn, checkedOut, schemaVars, instVars>>

\* one statement of the block completes: conn.cursor(), cur.execute(),
\* the fetch (select only), cur.close()
Step(t) ==
    /\ pc[t].at \in {"cursor", "run", "fetch", "close"}
    /\ pc' = [pc EXCEPT ![t].at = NextStep(pc[t])]
    /\ UNCHANGED <<conn, checkedOut, schemaVars, instVars>>

\* one statement of the block raises
StepRaises(t) ==
    /\ pc[t].at \in {"cursor", "run", "fetch", "close"}
    /\ pc' = [pc EXCEPT ![t] = AfterRaise(pc[t])]
    /\ UNCHANGED <<conn, checkedOut, schemaVars, instVars>>

\* exit of the async with block, normal or by exception
Release(t) ==
    /\ pc[t].at \in {"exit", "raising"}
    /\ checkedOut' = Pool_aexit(checkedOut)
    /\ conn' = [conn EXCEPT ![t] = FALSE]
    /\ pc' = [pc EXCEPT ![t].at = IF pc[t].at = "exit" THEN "returned" ELSE "failed"]
    /\ UNCHANGED <<schemaVars, instVars>>

PoolNext ==
    \/ \E t \in Calls, fn \in {"select", "execute"} : BeginCall(t, fn)
    \/ \E t \in Calls : Acquire(t)
    \/ \E t \in Calls : AcquireFails(t)
    \/ \E t \in Calls : Step(t)
    \/ \E t \in Calls : StepRaises(t)
    \/ \E t \in Calls : Release(t)

SpecPool == PoolInit /\ [][PoolNext]_vars

----------------------------------------------------------------------------
(* Reading a statement template back: what the claims say about its text *)

\* the identifiers of a statement, in order: the tokens inside back-quotes
RECURSIVE IdentsFrom(_, _, _)
IdentsFrom(toks, i, open) ==
    IF i > Len(toks) THEN <<>>
    ELSE IF toks[i] = Backquote THEN IdentsFrom(toks, i + 1, ~open)
    ELSE IF open THEN <<toks[i]>> \o IdentsFrom(toks, i + 1, open)
    ELSE IdentsFrom(toks, i + 1, open)

\* the index of the first token x at or after position i (0: none)
RECURSIVE IndexFrom(_, _, _)
IndexFrom(toks, x, i) ==
    IF i > Len(toks) THEN 0
    ELSE IF toks[i] = x THEN i
    ELSE IndexFrom(toks, x, i + 1)

\* the tokens between the first a and the first b after it
Between(toks, a, b) ==
    LET i == IndexFrom(toks, a, 1)
        j == IndexFrom(toks, b, i + 1)
    IN  IF i = 0 \/ j = 0 THEN <<>> ELSE SubSeq(toks, i + 1, j - 1)

NotBlank(x) == x # " "

\* the items of a comma-separated list, blanks dropped; as text.split(',')
\* does, n commas give n + 1 items, empty ones included
RECURSIVE SplitOnComma(_)
SplitOnComma(toks) ==
    LET i == IndexFrom(toks, ",", 1)
    IN  IF i = 0 THEN <<SelectSeq(toks, NotBlank)>>
        ELSE <<SelectSeq(SubSeq(toks, 1, i - 1), NotBlank)>>
                 \o SplitOnComma(SubSeq(toks, i + 1, Len(toks)))

NonEmpty(item) == item # <<>>

\* the column list of an insert template, its number of placeholders
InsertColumns(sql) == SplitOnComma(Between(sql, "(", ")"))
Placeholders(sql) == Cardinality({i \in DOMAIN sql : sql[i] = "?"})

\* the column list of a select template, the entries of an update's set clause
SelectColumns(sql) == SplitOnComma(Between(sql, "select", "from"))
SetEntries(sql) == SelectSeq(SplitOnComma(Between(sql, "set", "where")), NonEmpty)

\* the value a field has on an instance (None when it has none)
ValueOf(d, k) == IF k \in DOMAIN d THEN d[k] ELSE None

----------------------------------------------------------------------------
(* The claims *)

PrimaryKeyCount ==
    Cardinality({i \in DOMAIN decl.attrs :
                    IsField(decl.attrs[i].v) /\ decl.attrs[i].v.primary_key})

\* C1: for every class other than Model itself, schema derivation succeeds
\* when exactly one declared field is marked primary key, and fails with a
\* RuntimeError, producing no mapped type, when none or several are.
C1_SinglePrimaryKey ==
    (cls.kind # "none" /\ decl.name # "Model") =>
        IF PrimaryKeyCount = 1
        THEN cls.kind = "mapped"
        ELSE /\ cls.kind = "error"
             /\ cls.error \in {"RuntimeError: Primary key not found",
                               "RuntimeError: Duplicate primary key"}

C1_Witness ==
    /\ decl.name # "Model"
    /\ PrimaryKeyCount = 1
    /\ cls.kind = "mapped"
    /\ Len(cls.fields) = 2

\* C2: the insert template lists the ordinary columns in declaration order and
\* then the primary-key column, with n+1 placeholders; save() issues exactly
\* one execute call with that template and n+1 arguments, argument i being the
\* value of the i-th ordinary field and the last the primary-key value.
C2_InsertBinding ==
    last.op = "save" =>
        LET n == Len(cls.fields)
        IN  /\ InsertColumns(cls.insert) =
                   [i \in 1..(n + 1) |->
                       IF i <= n THEN Quote(cls.fields[i])
                       ELSE Quote(cls.primary_key)]
            /\ Placeholders(cls.insert) = n + 1
            /\ Len(last.calls) = 1
            /\ last.calls[1].fn = "execute"
            /\ last.calls[1].sql = cls.insert
            /\ Len(last.calls[1].args) = n + 1
            /\ \A i \in 1..n :
                   last.calls[1].args[i] = ValueOf(inst, cls.fields[i])
            /\ last.calls[1].args[n + 1] = ValueOf(inst, cls.primary_key)

\* the class statement of the round-trip scenario: id (primary key), name,
\* age (default 0), in that order
IsRoundTripDecl ==
    /\ decl.name = "User"
    /\ decl.attrs = <<Attr("id", StringField(None, TRUE, None)),
                      Attr("name", StringField(None, FALSE, None)),
                      Attr("age", StringField(None, FALSE, Zero))>>
    /\ cls.kind = "mapped"

\* C3 as stated: the three templates are exactly
\*   insert into <table> (name,age,id) values (?,?,?)
\*   update <table> set name=?,age=? where id=?
\*   delete from <table> where id=?
\* with every column back-quoted and nothing between a comma and the next
\* column (the table read either bare or back-quoted).
C3_AsStated ==
    IsRoundTripDecl =>
        \E t \in {<<cls.table>>, Quote(cls.table)} :
            /\ cls.insert = <<"insert", " ", "into", " ">> \o t \o
                   <<" ", "(", Backquote, "name", Backquote, ",",
                     Backquote, "age", Backquote, ",",
                     Backquote, "id", Backquote, ")", " ", "values", " ",
                     "(", "?", ",", "?", ",", "?", ")">>
            /\ cls.update = <<"update", " ">> \o t \o
                   <<" ", "set", " ", Backquote, "name", Backquote, "=", "?", ",",
                     Backquote, "age", Backquote, "=", "?", " ", "where", " ",
                     Backquote, "id", Backquote, "=", "?">>
            /\ cls.delete = <<"delete", " ", "from", " ">> \o t \o
                   <<" ", "where", " ", Backquote, "id", Backquote, "=", "?">>

\* C3, amended: the table is back-quoted too, and in the insert template a
\* blank follows the comma before the primary-key column; the update and
\* delete templates are as stated, with the table back-quoted.
C3_Templates ==
    IsRoundTripDecl =>
        /\ cls.insert =
               <<"insert", " ", "into", " ", Backquote, cls.table, Backquote,
                 " ", "(", Backquote, "name", Backquote, ",",
                 Backquote, "age", Backquote, ",", " ",
                 Backquote, "id", Backquote, ")", " ", "values", " ",
                 "(", "?", ",", "?", ",", "?", ")">>
        /\ cls.update =
               <<"update", " ", Backquote, cls.table, Backquote,
                 " ", "set", " ", Backquote, "name", Backquote, "=", "?", ",",
                 Backquote, "age", Backquote, "=", "?", " ", "where", " ",
                 Backquote, "id", Backquote, "=", "?">>
        /\ cls.delete =
               <<"delete", " ", "from", " ", Backquote, cls.table, Backquote,
                 " ", "where", " ", Backquote, "id", Backquote, "=", "?">>

C3_Witness == IsRoundTripDecl /\ cls.table = "users"

\* C4: once getValueOrDefault has been called on a field that was unset and
\* has a declared default, every later getValueOrDefault of that field (also
\* those save() makes) returns what the first call returned, whatever reads
\* of this or other fields come in between.
C4_DefaultStable ==
    /\ (last.op = "getValueOrDefault" /\ last.exc = None
            /\ firstVal[last.key] # NoRead)
           => last.ret = firstVal[last.key]
    /\ last.op = "save" =>
           LET keys == Append(cls.fields, cls.primary_key)
           IN  \A i \in DOMAIN keys :
                   firstVal[keys[i]] # NoRead
                       => last.calls[1].args[i] = firstVal[keys[i]]

\* a later read of the generated primary key: this call invoked no generator
C4_Witness ==
    /\ last.op = "getValueOrDefault"
    /\ last.key = "id"
    /\ last.gencalls = 0
    /\ firstVal["id"] = GenVals[1]
    /\ last.ret = GenVals[1]
    /\ inst["id"] = GenVals[1]

\* C5: getValueOrDefault returns the stored value, changing nothing and
\* invoking no generator, when the stored value is present and not None; when
\* it is absent or None and the field has a default, it resolves the default
\* (a generator is invoked exactly once), stores it under that field only,
\* and returns it.
C5_GetValueOrDefault ==
    [][last'.op = "getValueOrDefault" =>
        LET k == last'.key
        IN  /\ ~IsUnset(inst, k) =>
                  /\ last'.exc = None
                  /\ last'.ret = inst[k]
                  /\ last'.gencalls = 0
                  /\ inst' = inst /\ gen' = gen
            /\ (IsUnset(inst, k) /\ HasDefault(cls, k)) =>
                  LET dflt == cls.mappings[k].default
                      v == IF Callable(dflt) THEN GenVals[gen + 1] ELSE dflt
                  IN  /\ last'.exc = None
                      /\ last'.ret = v
                      /\ last'.gencalls = IF Callable(dflt) THEN 1 ELSE 0
                      /\ gen' = gen + last'.gencalls
                      /\ inst' = [x \in DOMAIN inst \cup {k} |->
                                     IF x = k THEN v ELSE inst[x]]]_vars

\* C6: find(pk) issues exactly one select call: the select template with the
\* primary-key predicate appended, pk the only argument, row limit 1; when
\* the call returns no row find returns None without raising, otherwise an
\* instance whose values are those of the first row returned.
C6_Find ==
    last.op = "find" =>
        /\ Len(last.calls) = 1
        /\ LET call == last.calls[1]
           IN  /\ call.fn = "select"
               /\ call.sql = cls.select \o
                      <<" ", "where", " ", Backquote, cls.primary_key,
                        Backquote, "=", "?">>
               /\ call.args = <<last.key>>
               /\ call.size = 1
               /\ (~call.raised /\ Len(call.rs) = 0)
                      => (last.ret = None /\ last.exc = None)
               /\ (~call.raised /\ Len(call.rs) > 0)
                      => /\ last.ret = "<instance>"
                         /\ last.exc = None
                         /\ inst = call.rs[1]

C6_Witness ==
    /\ last.op = "find"
    /\ ~last.calls[1].raised
    /\ Len(last.calls[1].rs) = 0
    /\ last.ret = None

\* C7: save() returns normally for every affected-row count execute reports,
\* logging a warning exactly when the count is not 1; an error raised by
\* execute reaches the caller of save().
C7_SaveTolerates ==
    last.op = "save" =>
        LET call == last.calls[1]
        IN  /\ ~call.raised =>
                  /\ last.exc = None
                  /\ Len(last.logs) = (IF call.rowcount # 1 THEN 1 ELSE 0)
            /\ call.raised => (last.exc = "DbError" /\ last.logs = <<>>)

C7_Witness ==
    /\ last.op = "save"
    /\ ~last.calls[1].raised
    /\ last.calls[1].rowcount = 0
    /\ last.exc = None
    /\ Len(last.logs) = 1

\* C8 as stated: a read (attribute-style or getValueOrDefault) of a name that
\* is not in the value mapping and has no declared default raises
\* AttributeError and leaves the mapping unchanged.
C8_AsStated ==
    [][(/\ last'.op \in {"getattr", "getValueOrDefault"}
        /\ last'.key \notin DOMAIN inst
        /\ ~HasDefault(cls, last'.key))
           => (last'.exc = "AttributeError" /\ inst' = inst)]_vars

\* C8, amended: attribute-style access raises AttributeError exactly when the
\* name is neither a key of the value mapping nor an attribute of the class;
\* getValueOrDefault of a name that is not in the mapping and has no declared
\* default never raises AttributeError: it returns the class attribute of that
\* name if there is one, else None for a declared field, else raises KeyError.
\* Either read leaves the mapping unchanged.
C8_Amended ==
    [][/\ last'.op = "getattr" =>
            /\ (last'.exc = "AttributeError")
                   <=> (last'.key \notin DOMAIN inst /\ last'.key \notin ClassAttrs)
            /\ inst' = inst
       /\ (/\ last'.op = "getValueOrDefault"
           /\ last'.key \notin DOMAIN inst
           /\ ~HasDefault(cls, last'.key))
              => /\ inst' = inst
                 /\ IF last'.key \in ClassAttrs
                    THEN last'.exc = None /\ last'.ret = BoundMethod
                    ELSE IF last'.key \in DOMAIN cls.mappings
                    THEN last'.exc = None /\ last'.ret = None
                    ELSE last'.exc = "KeyError"]_vars

C8_Witness ==
    /\ last.op = "getattr"
    /\ last.key \notin DOMAIN inst
    /\ last.exc = "AttributeError"

InFlight == {t \in Calls : ~Finished(pc[t])}

\* C9: a select or execute call holds a pooled connection only between the
\* entry and the exit of its block, on every path: the connections checked
\* out never outnumber the calls in flight, and once every call has returned
\* or failed none is checked out.
C9_Released ==
    /\ checkedOut = Cardinality({t \in Calls : conn[t]})
    /\ checkedOut <= Cardinality(InFlight)
    /\ \A t \in Calls : Finished(pc[t]) => ~conn[t]
    /\ (InFlight = {}) => checkedOut = 0

\* every call is over, one by an exception inside the block, one normally
C9_Witness ==
    /\ InFlight = {}
    /\ \E t \in Calls : pc[t].at = "failed"
    /\ \E t \in Calls : pc[t].at = "returned"
    /\ checkedOut = 0

\* C10: for every ordinary field, the identifier of its entry in the update
\* template's set clause is the identifier it has in the insert and select
\* templates, and the set clause has one col=? entry per ordinary field, in
\* declaration order.
C10_SameIdentifier ==
    cls.kind = "mapped" =>
        LET n == Len(cls.fields)
            entries == SetEntries(cls.update)
        IN  /\ Len(entries) = n
            /\ \A i \in 1..n :
                   \E col \in Range(IdentsFrom(cls.update, 1, FALSE)) :
                       /\ entries[i] = Quote(col) \o <<"=", "?">>
                       /\ InsertColumns(cls.insert)[i] = Quote(col)
                       /\ SelectColumns(cls.select)[i + 1] = Quote(col)

====
